---- MODULE Spec2Model ----
(***************************************************************************)
(* The WIFI router daemon of guest/commands/wifirouter/router.cc: one      *)
(* thread multiplexes the MAC80211_HWSIM netlink socket, the listening     *)
(* unix socket and the client sockets with select(), keeps the clients in  *)
(* a std::set<int> and the subscriptions in a std::multimap<MacHash, int>. *)
(***************************************************************************)
EXTENDS Integers, Sequences, FiniteSets, TLC

(***************************************************************************)
(* Bounds of the model.                                                    *)
(***************************************************************************)
\* Highest descriptor number the process may hold (its RLIMIT_NOFILE - 1):
\* accept() fails with EMFILE when every number up to it is in use.
MaxFd == 6
\* Most entries the multimap holds: clients stop sending REGISTER with a MAC
\* attribute once it is that full.
MaxTargets == 2

(***************************************************************************)
(* Program constants.                                                      *)
(***************************************************************************)
\* sizeof(nlmsghdr)
NLMSG_HDRLEN == 16
\* sizeof(genlmsghdr)
GENL_HDRLEN == 4
EINVAL == 22
\* Size of a REGISTER request with one 6 byte attribute: the two headers, the
\* attribute header (4) and the padded payload (8).
RegisterLen == 32
\* The descriptors main() holds before ServerLoop: the netlink socket and
\* the listening socket.
netlink_fd == 3
server_fd == 4
\* genl_ctrl_resolve()'s result, and some other netlink message type.
family == 25
NLMSG_DONE == 3

ClientFds == (server_fd + 1)..MaxFd

(***************************************************************************)
(* MAC addresses are 6 bytes; GetMacHash reads them as three uint16_t.     *)
(***************************************************************************)
MacA == <<170, 187, 204, 221, 238, 255>>  \* AA:BB:CC:DD:EE:FF
MacB == <<17, 34, 204, 221, 238, 255>>    \* 11:22:CC:DD:EE:FF
MacC == <<2, 0, 0, 0, 0, 1>>              \* 02:00:00:00:00:01
MacD == <<4, 0, 0, 0, 0, 1>>              \* 04:00:00:00:00:01
Macs == {MacA, MacB, MacC, MacD}
\* The addresses the clients register and those the radios transmit from: no
\* client registers MacA.
RegMacs == {MacB, MacC}
TxMacs == {MacA, MacC}
NoMac == <<>>

RECURSIVE BitOr(_, _, _)
\* a | b on the low n bits (a | 0 = a, 0 | b = b).
BitOr(a, b, n) ==
    IF n = 0 THEN 0
    ELSE IF a = 0 THEN b % (2 ^ n)
    ELSE IF b = 0 THEN a % (2 ^ n)
    ELSE (IF a % 2 = 1 \/ b % 2 = 1 THEN 1 ELSE 0) + 2 * BitOr(a \div 2, b \div 2, n - 1)

\* typed[i] of reinterpret_cast<const uint16_t*>(macaddr), little endian.
Typed(macaddr, i) == macaddr[2 * i + 1] + 256 * macaddr[2 * i + 2]

\* (typed[1] << 16) | typed[2] has type int: with bit 15 of typed[1] set it is
\* negative, and its conversion to uint64_t sets the upper 32 bits.
SignExt(macaddr) == IF Typed(macaddr, 1) >= 32768 THEN 65535 ELSE 0

\* The uint64_t key as its four 16 bit words, most significant first.
GetMacHash(macaddr) ==
    << BitOr(0, SignExt(macaddr), 16),
       BitOr(Typed(macaddr, 0), SignExt(macaddr), 16),
       BitOr(0, Typed(macaddr, 1), 16),
       BitOr(0, Typed(macaddr, 2), 16) >>

NoKey == <<>>

\* operator< of uint64_t on the word representation.
KeyLess(a, b) ==
    \E i \in 1..4 : a[i] < b[i] /\ \A j \in 1..(i - 1) : a[j] = b[j]

(***************************************************************************)
(* std::multimap<MacHash, int>: a sequence of pairs ordered by key, equal  *)
(* keys in insertion order.                                                *)
(***************************************************************************)
\* A table of one subscription per client: the emplace drops what the client
\* had.
EmplaceReplace(t, k, client) ==
    LET Other(e) == e.second # client
        u == SelectSeq(t, Other)
        n == Cardinality({i \in 1..Len(u) : ~KeyLess(k, u[i].first)})
    IN  SubSeq(u, 1, n) \o <<[first |-> k, second |-> client]>> \o SubSeq(u, n + 1, Len(u))

\* targets->emplace(key, client): inserted at the upper bound of key.
Emplace(t, k, client) ==
    LET n == Cardinality({i \in 1..Len(t) : ~KeyLess(k, t[i].first)})
    IN  SubSeq(t, 1, n) \o <<[first |-> k, second |-> client]>> \o SubSeq(t, n + 1, Len(t))

\* targets->find(key): the first element with that key (libc++ and libstdc++
\* both return the lower bound), Len + 1 for end().
Find(t, k) ==
    IF \E i \in 1..Len(t) : t[i].first = k
    THEN CHOOSE i \in 1..Len(t) : t[i].first = k /\ \A j \in 1..(i - 1) : t[j].first # k
    ELSE Len(t) + 1

\* RemoveClient's loop leaving after the first element it erases.
EraseFirst(t, client) ==
    IF \E i \in 1..Len(t) : t[i].second = client
    THEN LET i == CHOOSE i \in 1..Len(t) :
                     t[i].second = client /\ \A j \in 1..(i - 1) : t[j].second # client
         IN  SubSeq(t, 1, i - 1) \o SubSeq(t, i + 1, Len(t))
    ELSE t

RECURSIVE EraseClient(_, _)
\* The loop of RemoveClient: erase every element whose value is client.
EraseClient(t, client) ==
    IF t = <<>> THEN <<>>
    ELSE IF Head(t).second = client THEN EraseClient(Tail(t), client)
         ELSE <<Head(t)>> \o EraseClient(Tail(t), client)

\* The clients the multimap holds under key k, and all the clients it names.
Subscribers(t, k) == {t[i].second : i \in {j \in 1..Len(t) : t[j].first = k}}
Referenced(t) == {t[i].second : i \in 1..Len(t)}

(***************************************************************************)
(* State.                                                                  *)
(***************************************************************************)
VARIABLES
    clients,           \* ClientsTable clients
    targets,           \* MacToClientsTable targets
    open,              \* the descriptors the process holds open
    pc,                \* position of ServerLoop
    reads,             \* fd_set reads after select()
    cur,               \* the client the loop over clients visited last
    key,               \* RouteWIFIPacket: key of the notification
    mac,               \* RouteWIFIPacket: its transmitter address
    it,                \* RouteWIFIPacket: the iterator of the send loop
    pending_removals,  \* RouteWIFIPacket: std::set<int> pending_removals
    sent,              \* the send() calls of the RouteWIFIPacket call
    entry,             \* RouteWIFIPacket: its nl_recv, clients and targets on entry
    handled,           \* the last HandleClientMessage call: request and ack
    closed,            \* the last close() call
    rep,               \* RouteWIFIPacket: the frame nl_msg* rep holds
    accepted,          \* the last accept() call
    message,           \* ClientHandler: the Json::Value given to HandleMessage
    replies,           \* ClientHandler: the values given to send_to_client_
    calls,             \* ClientHandler: the calls on peer_connection_ and observer_
    observers,         \* ClientHandler: the callbacks the peer connection holds
    connection_closed  \* ClientHandler: the calls of on_connection_closed_cb_

\* The state of the ClientHandler, which the wifi router does not have.
handler_vars == <<message, replies, calls, observers, connection_closed>>

vars == <<clients, targets, open, pc, reads, cur, key, mac, it,
          pending_removals, sent, entry, handled, closed, rep, accepted,
          message, replies, calls, observers, connection_closed>>

None == [none |-> TRUE]

\* A ClientHandler that was given no message.
NoHandler ==
    /\ message = None
    /\ replies = <<>>
    /\ calls = <<>>
    /\ observers = {}
    /\ connection_closed = 0

(***************************************************************************)
(* What the sockets hand to the daemon.                                    *)
(***************************************************************************)
Cmds == {"WIFIROUTER_CMD_REGISTER", "WIFIROUTER_CMD_NOTIFY"}

\* The nlmsg_pid and nlmsg_seq the clients put in their requests.
Ports == {7, 9}
Seqs == {42, 43}

\* A recv() on a client: the byte count (0 at end of stream, -1 on error),
\* the header's nlmsg_len (whatever the buffer holds when fewer than 4 bytes
\* arrived), its nlmsg_pid and nlmsg_seq, the genlmsghdr's cmd (whatever the
\* buffer holds when the message ends before it), and the attributes the
\* bytes after the two headers hold: whether they parse, and the
\* WIFIROUTER_ATTR_MAC payload.
ClientMsgs ==
    {x : x \in
    {m \in [size : {-1, 0, 8, NLMSG_HDRLEN, NLMSG_HDRLEN + GENL_HDRLEN, RegisterLen},
            nlmsg_len : {8, NLMSG_HDRLEN, NLMSG_HDRLEN + GENL_HDRLEN, RegisterLen},
            nlmsg_pid : Ports, nlmsg_seq : Seqs,
            cmd : Cmds, parse : BOOLEAN, mac : RegMacs \cup {NoMac}] :
        \* a client numbers its requests per port; the second port sends a
        \* REGISTER with a MAC address, one without, and another command
        /\ (m.nlmsg_pid = 7) = (m.nlmsg_seq = 42)
        /\ m.nlmsg_pid # 7 =>
              /\ m.size = m.nlmsg_len /\ m.parse /\ m.mac \in {NoMac, MacC}
              /\ m.size = IF m.cmd = "WIFIROUTER_CMD_REGISTER" THEN RegisterLen
                          ELSE NLMSG_HDRLEN + GENL_HDRLEN
        \* no attribute fits in less than RegisterLen bytes
        /\ m.size < RegisterLen => m.parse /\ m.mac = NoMac
        \* attributes that do not parse yield none
        /\ ~m.parse => m.mac = NoMac
        \* one message of each kind that the code treats alike
        /\ m.size < NLMSG_HDRLEN => m.cmd = "WIFIROUTER_CMD_NOTIFY"
        /\ m.size <= 0 => m.nlmsg_len = NLMSG_HDRLEN
        /\ m.size > 0 /\ m.size # m.nlmsg_len =>
              /\ m.size = RegisterLen /\ m.nlmsg_len = NLMSG_HDRLEN + GENL_HDRLEN
              /\ m.cmd = "WIFIROUTER_CMD_REGISTER" /\ m.mac = MacB
        /\ m.cmd # "WIFIROUTER_CMD_REGISTER" => m.mac \in {NoMac, MacB}}}

\* The bytes of a datagram of the netlink socket, short of its lengths: the
\* nlmsg_type, then the payload of HWSIM_ATTR_ADDR_TRANSMITTER, or one byte
\* that is no attribute.
Datagram(type, parse, addr) == <<type>> \o (IF parse THEN addr ELSE <<255>>)

\* An nl_recv() on the netlink socket: its result (the datagram's length, or
\* negative), the datagram, the header's nlmsg_type, whether genlmsg_parse
\* succeeds and the payload of HWSIM_ATTR_ADDR_TRANSMITTER, if any. Messages
\* of other families parse as well.
KernelMsgs ==
    {[len |-> -1, buf |-> <<>>, nlmsg_type |-> NLMSG_DONE, parse |-> FALSE, addr |-> NoMac]}
    \cup
    {[len |-> Len(Datagram(h.nlmsg_type, h.parse, h.addr)),
      buf |-> Datagram(h.nlmsg_type, h.parse, h.addr),
      nlmsg_type |-> h.nlmsg_type, parse |-> h.parse, addr |-> h.addr] :
        h \in {x \in [nlmsg_type : {family, NLMSG_DONE}, parse : BOOLEAN,
                      addr : TxMacs \cup {NoMac}] : ~x.parse => x.addr = NoMac}}

(***************************************************************************)
(* The functions of router.cc.                                             *)
(***************************************************************************)
\* close(fd) on the process's descriptor table.
Close(fd, fds) == fds \ {fd}

\* accept(): the lowest descriptor number not in use, -1 when there is none
\* (EMFILE).
LowestFree(fds) ==
    IF ClientFds \subseteq fds THEN -1
    ELSE CHOOSE fd \in ClientFds \ fds : \A g \in ClientFds \ fds : fd <= g

\* RemoveClient dropping the whole index with the client.
RemoveClientClear(client, cs, t, fds) ==
    [clients |-> cs \ {client},
     targets |-> <<>>,
     open |-> Close(client, fds),
     closed |-> [fd |-> client, wasOpen |-> client \in fds, wasClient |-> client \in cs]]

\* RemoveClient leaving the multimap as it is.
RemoveClientKeepIndex(client, cs, t, fds) ==
    [clients |-> cs \ {client},
     targets |-> t,
     open |-> Close(client, fds),
     closed |-> [fd |-> client, wasOpen |-> client \in fds, wasClient |-> client \in cs]]

\* RemoveClient(client, clients, targets): close, erase from the set, erase
\* every element of the multimap whose value is client.
RemoveClient(client, cs, t, fds) ==
    [clients |-> cs \ {client},
     targets |-> EraseClient(t, client),
     open |-> Close(client, fds),
     closed |-> [fd |-> client, wasOpen |-> client \in fds, wasClient |-> client \in cs]]

\* nlmsg_parse(msg, sizeof(genlmsghdr), attrs, ...): libnl refuses a message
\* whose nlmsg_len does not cover the two headers.
NlmsgParse(m) ==
    IF m.nlmsg_len < NLMSG_HDRLEN + GENL_HDRLEN THEN FALSE ELSE m.parse

\* The test after recv() without its comparison with sizeof(nlmsghdr).
RejectedNoShort(m) ==
    m.size = 0 \/ m.size # m.nlmsg_len

\* The test after recv(): "Invalid message or no data".
Rejected(m) ==
    m.size = 0 \/ m.size # m.nlmsg_len \/ m.size < NLMSG_HDRLEN

\* The switch without its "result = 0".
DispatchNoResult(client, m, t) ==
    IF m.cmd = "WIFIROUTER_CMD_REGISTER" /\ NlmsgParse(m) /\ m.mac # NoMac
    THEN [targets |-> Emplace(t, GetMacHash(m.mac), client), result |-> -EINVAL]
    ELSE [targets |-> t, result |-> -EINVAL]

\* The switch taking a REGISTER whose attributes do not parse for a success.
DispatchUnparsed(client, m, t) ==
    IF m.cmd = "WIFIROUTER_CMD_REGISTER" /\ (NlmsgParse(m) => m.mac # NoMac)
    THEN [targets |-> IF m.mac # NoMac THEN Emplace(t, GetMacHash(m.mac), client) ELSE t,
          result |-> 0]
    ELSE [targets |-> t, result |-> -EINVAL]

\* The switch on ghdr->cmd: the multimap and the result code after it.
Dispatch(client, m, t) ==
    IF m.cmd = "WIFIROUTER_CMD_REGISTER" /\ NlmsgParse(m) /\ m.mac # NoMac
    THEN [targets |-> Emplace(t, GetMacHash(m.mac), client), result |-> 0]
    ELSE [targets |-> t, result |-> -EINVAL]

\* Whether m is a REGISTER request, whole, that names a MAC address.
Registers(m) ==
    /\ m.size = m.nlmsg_len /\ m.size >= RegisterLen
    /\ m.cmd = "WIFIROUTER_CMD_REGISTER" /\ m.parse /\ m.mac # NoMac

\* HandleClientMessage returning false for a request it answers with an error.
HandleClientMessageStrict(client, m, sendOk, t) ==
    IF Rejected(m)
    THEN [ret |-> FALSE, targets |-> t, acked |-> FALSE, result |-> 0, ackOk |-> FALSE,
          pid |-> 0, seq |-> 0]
    ELSE LET d == Dispatch(client, m, t)
         IN  [ret |-> sendOk /\ d.result = 0, targets |-> d.targets, acked |-> TRUE,
              result |-> d.result, ackOk |-> sendOk,
              pid |-> m.nlmsg_pid, seq |-> m.nlmsg_seq]

\* HandleClientMessage leaving the port and the sequence number of the ack to
\* the library (NL_AUTO_PORT, NL_AUTO_SEQ).
HandleClientMessageAuto(client, m, sendOk, t) ==
    IF Rejected(m)
    THEN [ret |-> FALSE, targets |-> t, acked |-> FALSE, result |-> 0, ackOk |-> FALSE,
          pid |-> 0, seq |-> 0]
    ELSE LET d == Dispatch(client, m, t)
         IN  [ret |-> sendOk, targets |-> d.targets, acked |-> TRUE,
              result |-> d.result, ackOk |-> sendOk, pid |-> 0, seq |-> 0]

\* HandleClientMessage not looking at what the send() of the ack returned.
HandleClientMessageIgnoreSend(client, m, sendOk, t) ==
    IF Rejected(m)
    THEN [ret |-> FALSE, targets |-> t, acked |-> FALSE, result |-> 0, ackOk |-> FALSE,
          pid |-> 0, seq |-> 0]
    ELSE LET d == Dispatch(client, m, t)
         IN  [ret |-> TRUE, targets |-> d.targets, acked |-> TRUE,
              result |-> d.result, ackOk |-> sendOk,
              pid |-> m.nlmsg_pid, seq |-> m.nlmsg_seq]

\* HandleClientMessage(client, targets) on the message m, the ack's send()
\* succeeding in full or not: the return value, the multimap, and the ack
\* (nlmsg_put(rsp, msg->nlmsg_pid, msg->nlmsg_seq, NLMSG_ERROR, 0, 0) and
\* its nlmsgerr).
HandleClientMessage(client, m, sendOk, t) ==
    IF Rejected(m)
    THEN [ret |-> FALSE, targets |-> t, acked |-> FALSE, result |-> 0, ackOk |-> FALSE,
          pid |-> 0, seq |-> 0]
    ELSE LET d == Dispatch(client, m, t)
         IN  [ret |-> sendOk, targets |-> d.targets, acked |-> TRUE,
              result |-> d.result, ackOk |-> sendOk,
              pid |-> m.nlmsg_pid, seq |-> m.nlmsg_seq]

(***************************************************************************)
(* ServerLoop. At "select" reads is the fd_set handed to select(), after   *)
(* it the fd_set select() left.                                            *)
(***************************************************************************)
\* An fd_set without the listener.
FdSetNoListener(cs) == {netlink_fd} \cup cs

\* fdset(server_fd); fdset(netlink_fd); for (int client : clients) fdset(client);
FdSet(cs) == {server_fd, netlink_fd} \cup cs

Init ==
    /\ clients = {}
    /\ targets = <<>>
    /\ open = {netlink_fd, server_fd}
    /\ pc = "select"
    /\ reads = FdSet({})
    /\ cur = 0
    /\ key = NoKey
    /\ mac = NoMac
    /\ it = 0
    /\ pending_removals = {}
    /\ sent = <<>>
    /\ entry = None
    /\ handled = None
    /\ closed = None
    /\ rep = None
    /\ accepted = None
    /\ NoHandler

\* The logs of the previous step are dropped by the next one.
NoLog ==
    sent' = <<>> /\ entry' = None /\ handled' = None /\ closed' = None /\ accepted' = None
NoRoute ==
    key' = NoKey /\ mac' = NoMac /\ it' = 0 /\ pending_removals' = {} /\ rep' = None

\* select() returns with some descriptors ready.
SelectReady ==
    /\ pc = "select"
    /\ \E r \in SUBSET reads :
        /\ r # {}
        /\ reads' = r
    /\ pc' = "accept"
    /\ NoLog
    /\ UNCHANGED <<clients, targets, open, cur, key, mac, it, pending_removals,
                   rep>>
    /\ UNCHANGED handler_vars

\* select() <= 0: continue.
SelectNone ==
    /\ pc = "select"
    /\ reads' = FdSet(clients)
    /\ NoLog
    /\ UNCHANGED <<clients, targets, open, pc, cur, key, mac, it,
                   pending_removals, rep>>
    /\ UNCHANGED handler_vars

\* A loop that goes to the clients before RouteWIFIPacket.
AcceptSkipToClients ==
    /\ pc = "accept"
    /\ server_fd \notin reads
    /\ pc' = "clients"
    /\ NoLog
    /\ UNCHANGED <<clients, targets, open, reads, cur, key, mac, it,
                   pending_removals, rep>>
    /\ UNCHANGED handler_vars

\* FD_ISSET(server_fd) is false.
AcceptSkip ==
    /\ pc = "accept"
    /\ server_fd \notin reads
    /\ pc' = "route"
    /\ NoLog
    /\ UNCHANGED <<clients, targets, open, reads, cur, key, mac, it,
                   pending_removals, rep>>
    /\ UNCHANGED handler_vars

\* AcceptNewClient inserting whatever accept() returned.
AcceptNewClientUnchecked ==
    /\ pc = "accept"
    /\ server_fd \in reads
    /\ \E client \in {-1, LowestFree(open)} :
        /\ clients' = clients \cup {client}
        /\ open' = IF client < 0 THEN open ELSE open \cup {client}
        /\ accepted' = [fd |-> client]
    /\ pc' = "route"
    /\ sent' = <<>>
    /\ entry' = None
    /\ handled' = None
    /\ closed' = None
    /\ UNCHANGED <<targets, reads, cur, key, mac, it, pending_removals, rep>>
    /\ UNCHANGED handler_vars

\* AcceptNewClient(server_fd, &clients)
AcceptNewClient ==
    /\ pc = "accept"
    /\ server_fd \in reads
    /\ \E client \in {-1, LowestFree(open)} :
        /\ IF client < 0
           THEN UNCHANGED <<clients, open>>
           ELSE /\ clients' = clients \cup {client}
                /\ open' = open \cup {client}
        /\ accepted' = [fd |-> client]
    /\ pc' = "route"
    /\ sent' = <<>>
    /\ entry' = None
    /\ handled' = None
    /\ closed' = None
    /\ UNCHANGED <<targets, reads, cur, key, mac, it, pending_removals, rep>>
    /\ UNCHANGED handler_vars

\* FD_ISSET(netlink_fd) is false.
RouteSkip ==
    /\ pc = "route"
    /\ netlink_fd \notin reads
    /\ pc' = "clients"
    /\ cur' = 0
    /\ NoLog
    /\ UNCHANGED <<clients, targets, open, reads, key, mac, it, pending_removals,
                   rep>>
    /\ UNCHANGED handler_vars

\* The frame with the packet attribute holding the attributes of the datagram
\* only.
RepPayload(m) ==
    [cmd |-> "WIFIROUTER_CMD_NOTIFY", mac |-> m.addr, packet |-> Tail(m.buf)]

\* genlmsg_put(rep, ..., WIFIROUTER_CMD_NOTIFY, 0) and the two nla_put: the
\* payload of the transmitter attribute, and len bytes of buf.
Rep(m) ==
    [cmd |-> "WIFIROUTER_CMD_NOTIFY", mac |-> m.addr, packet |-> SubSeq(m.buf, 1, m.len)]

\* RouteWIFIPacket without its test of nlmsg_type.
DiscardedAnyFamily(m) ==
    m.len < 0 \/ ~m.parse \/ m.addr = NoMac

\* Whether RouteWIFIPacket returns before the send loop.
Discarded(m) ==
    m.len < 0 \/ m.nlmsg_type # family \/ ~m.parse \/ m.addr = NoMac

\* RouteWIFIPacket up to the send loop: nl_recv, the checks, the key.
RouteWIFIPacket ==
    /\ pc = "route"
    /\ netlink_fd \in reads
    /\ \E m \in KernelMsgs :
        IF Discarded(m)
        THEN /\ pc' = "clients"
             /\ NoRoute
             /\ entry' = [clients |-> clients, targets |-> targets, msg |-> m]
        ELSE /\ rep' = Rep(m)
             /\ key' = GetMacHash(m.addr)
             /\ mac' = m.addr
             /\ it' = Find(targets, GetMacHash(m.addr))
             /\ pending_removals' = {}
             /\ pc' = "send"
             /\ entry' = [clients |-> clients, targets |-> targets, msg |-> m]
    /\ cur' = 0
    /\ sent' = <<>>
    /\ handled' = None
    /\ closed' = None
    /\ accepted' = None
    /\ UNCHANGED <<clients, targets, open, reads>>
    /\ UNCHANGED handler_vars

\* The condition of the send loop.
InRange == it <= Len(targets) /\ targets[it].first = key

\* The send loop leaving at the first send that fails.
RouteSendBreak ==
    /\ pc = "send"
    /\ InRange
    /\ \E ok \in BOOLEAN :
        /\ sent' = Append(sent, [client |-> targets[it].second, ok |-> ok, frame |-> rep])
        /\ pending_removals' =
              IF ok THEN pending_removals
              ELSE pending_removals \cup {targets[it].second}
        /\ it' = IF ok THEN it + 1 ELSE Len(targets) + 1
    /\ closed' = None
    /\ UNCHANGED <<clients, targets, open, pc, reads, cur, key, mac, entry,
                   handled, rep, accepted>>
    /\ UNCHANGED handler_vars

\* The send loop taking only a send() error, not a short write, for a failure:
\* nothing is put in pending_removals.
RouteSendKeep ==
    /\ pc = "send"
    /\ InRange
    /\ \E ok \in BOOLEAN :
        /\ sent' = Append(sent, [client |-> targets[it].second, ok |-> ok, frame |-> rep])
        /\ pending_removals' = pending_removals
    /\ it' = it + 1
    /\ closed' = None
    /\ UNCHANGED <<clients, targets, open, pc, reads, cur, key, mac, entry,
                   handled, rep, accepted>>
    /\ UNCHANGED handler_vars

\* The send loop calling RemoveClient at once for a send that fails.
RouteSendRemoveNow ==
    /\ pc = "send"
    /\ InRange
    /\ \E ok \in BOOLEAN :
        /\ sent' = Append(sent, [client |-> targets[it].second, ok |-> ok, frame |-> rep])
        /\ IF ok
           THEN /\ UNCHANGED <<clients, targets, open>>
                /\ closed' = None
                /\ it' = it + 1
           ELSE LET r == RemoveClient(targets[it].second, clients, targets, open)
                IN  /\ clients' = r.clients
                    /\ targets' = r.targets
                    /\ open' = r.open
                    /\ closed' = r.closed
                    /\ it' = it
    /\ UNCHANGED <<pc, reads, cur, key, mac, pending_removals, entry, handled, rep,
                   accepted>>
    /\ UNCHANGED handler_vars

\* One pass of the send loop: send(it->second, ...) in full or not.
RouteSend ==
    /\ pc = "send"
    /\ InRange
    /\ \E ok \in BOOLEAN :
        /\ sent' = Append(sent, [client |-> targets[it].second, ok |-> ok, frame |-> rep])
        /\ pending_removals' =
              IF ok THEN pending_removals
              ELSE pending_removals \cup {targets[it].second}
    /\ it' = it + 1
    /\ closed' = None
    /\ UNCHANGED <<clients, targets, open, pc, reads, cur, key, mac, entry,
                   handled, rep, accepted>>
    /\ UNCHANGED handler_vars

\* send(it->second, ..., MSG_NOSIGNAL) on a socket accept() returned, which
\* is in blocking mode: with the receive queue of the peer full the call
\* does not return.
RouteSendBlocks ==
    /\ pc = "send"
    /\ InRange
    /\ pc' = "blocked"
    /\ closed' = None
    /\ UNCHANGED <<clients, targets, open, reads, cur, key, mac, it,
                   pending_removals, sent, entry, handled, rep, accepted>>
    /\ UNCHANGED handler_vars

\* The peer takes a message off its queue, or closes: the send() goes on
\* (and returns as in RouteSend).
RouteSendWakes ==
    /\ pc = "blocked"
    /\ pc' = "send"
    /\ UNCHANGED <<clients, targets, open, reads, cur, key, mac, it,
                   pending_removals, sent, entry, handled, closed, rep, accepted>>
    /\ UNCHANGED handler_vars

\* The send loop ends.
RouteSendEnd ==
    /\ pc = "send"
    /\ ~InRange
    /\ pc' = "reap"
    /\ closed' = None
    /\ UNCHANGED <<clients, targets, open, reads, cur, key, mac, it,
                   pending_removals, sent, entry, handled, rep, accepted>>
    /\ UNCHANGED handler_vars

\* for (auto client : pending_removals) RemoveClient(client, ...): std::set
\* iterates in ascending order.
RouteRemove ==
    /\ pc = "reap"
    /\ pending_removals # {}
    /\ LET client == CHOOSE c \in pending_removals : \A d \in pending_removals : c <= d
           r == RemoveClient(client, clients, targets, open)
       IN  /\ clients' = r.clients
           /\ targets' = r.targets
           /\ open' = r.open
           /\ closed' = r.closed
           /\ pending_removals' = pending_removals \ {client}
    /\ UNCHANGED <<pc, reads, cur, key, mac, it, sent, entry, handled, rep,
                   accepted>>
    /\ UNCHANGED handler_vars

\* A loop that goes back to select() once a packet was routed.
RouteReturnContinue ==
    /\ pc = "reap"
    /\ pending_removals = {}
    /\ pc' = "select"
    /\ reads' = FdSet(clients)
    /\ cur' = 0
    /\ NoLog
    /\ NoRoute
    /\ UNCHANGED <<clients, targets, open>>
    /\ UNCHANGED handler_vars

\* RouteWIFIPacket returns.
RouteReturn ==
    /\ pc = "reap"
    /\ pending_removals = {}
    /\ pc' = "clients"
    /\ closed' = None
    /\ UNCHANGED <<clients, targets, open, reads, cur, key, mac, it,
                   pending_removals, sent, entry, handled, rep, accepted>>
    /\ UNCHANGED handler_vars

\* The loop over clients: the elements the iterator walks, and the one after
\* the one visited last.
\* The loop walking the clients select() was given, not those left.
LoopRangeStale == clients \cup (reads \cap ClientFds)

\* for (auto client = clients.begin(); client != clients.end();)
LoopRange == clients
HasNext == \E c \in LoopRange : c > cur
NextClient == CHOOSE c \in LoopRange : c > cur /\ \A d \in LoopRange : d > cur => c <= d

\* FD_ISSET(cfd) is false.
LoopSkip ==
    /\ pc = "clients"
    /\ HasNext
    /\ NextClient \notin reads
    /\ cur' = NextClient
    /\ NoLog
    /\ NoRoute
    /\ UNCHANGED <<clients, targets, open, pc, reads>>
    /\ UNCHANGED handler_vars

\* if (!HandleClientMessage(cfd, &targets)) ...
HandleClient ==
    /\ pc = "clients"
    /\ HasNext
    /\ NextClient \in reads
    /\ \E m \in ClientMsgs, sendOk \in BOOLEAN :
        /\ (Registers(m) => Len(targets) < MaxTargets)
        /\ LET h == HandleClientMessage(NextClient, m, sendOk, targets)
           IN  /\ targets' = h.targets
               /\ handled' = [client |-> NextClient, msg |-> m, ret |-> h.ret,
                              acked |-> h.acked, result |-> h.result, ackOk |-> h.ackOk,
                              pid |-> h.pid, seq |-> h.seq]
               /\ pc' = IF h.ret THEN "clients" ELSE "remove"
    /\ cur' = NextClient
    /\ sent' = <<>>
    /\ entry' = None
    /\ closed' = None
    /\ NoRoute
    /\ UNCHANGED <<clients, open, reads, accepted>>
    /\ UNCHANGED handler_vars

\* ... RemoveClient(cfd, &clients, &targets);
LoopRemove ==
    /\ pc = "remove"
    /\ LET r == RemoveClient(cur, clients, targets, open)
       IN  /\ clients' = r.clients
           /\ targets' = r.targets
           /\ open' = r.open
           /\ closed' = r.closed
    /\ pc' = "clients"
    /\ UNCHANGED <<reads, cur, key, mac, it, pending_removals, sent, entry,
                   handled, rep, accepted>>
    /\ UNCHANGED handler_vars

\* The loop over clients ends: the next iteration of while (true).
LoopEnd ==
    /\ pc = "clients"
    /\ ~HasNext
    /\ pc' = "select"
    /\ reads' = FdSet(clients)
    /\ cur' = 0
    /\ NoLog
    /\ NoRoute
    /\ UNCHANGED <<clients, targets, open>>
    /\ UNCHANGED handler_vars

Next ==
    \/ SelectReady
    \/ SelectNone
    \/ AcceptSkip
    \/ AcceptNewClient
    \/ RouteSkip
    \/ RouteWIFIPacket
    \/ RouteSend
    \/ RouteSendBlocks
    \/ RouteSendWakes
    \/ RouteSendEnd
    \/ RouteRemove
    \/ RouteReturn
    \/ LoopSkip
    \/ HandleClient
    \/ LoopRemove
    \/ LoopEnd

Spec == Init /\ [][Next]_vars

\* The loop keeps taking steps: while (true) never stops by itself, and every
\* send() of the send loop returns, at once or after it waited for the peer.
FairSpec == Init /\ [][Next]_vars /\ WF_vars(Next) /\ SF_vars(RouteSend)

(***************************************************************************)
(* main() up to ServerLoop: pc is the call main is about to make, "exit"   *)
(* after exit(1). The descriptors 0 to 2 are left out of open.             *)
(***************************************************************************)
InitMain ==
    /\ clients = {}
    /\ targets = <<>>
    /\ open = {}
    /\ pc = "nl_connect"
    /\ reads = {}
    /\ cur = 0
    /\ key = NoKey
    /\ mac = NoMac
    /\ it = 0
    /\ pending_removals = {}
    /\ sent = <<>>
    /\ entry = None
    /\ handled = None
    /\ closed = None
    /\ rep = None
    /\ accepted = None
    /\ NoHandler

\* main() touches neither the tables nor the variables of the loop.
MainKeep ==
    UNCHANGED <<clients, targets, reads, cur, key, mac, it, pending_removals,
                sent, entry, handled, closed, rep, accepted>>

\* res = nl_connect(sock, NETLINK_GENERIC); if (res < 0) exit(1);
MainConnect ==
    /\ pc = "nl_connect"
    /\ \E res \in {0, -1} :
        IF res < 0
        THEN pc' = "exit" /\ open' = open
        ELSE pc' = "genl_ctrl_resolve" /\ open' = open \cup {netlink_fd}
    /\ MainKeep
    /\ UNCHANGED handler_vars

\* mac80211_family = genl_ctrl_resolve(...); if (mac80211_family <= 0) exit(1);
MainResolve ==
    /\ pc = "genl_ctrl_resolve"
    /\ \E mac80211_family \in {family, 0, -1} :
        pc' = IF mac80211_family <= 0 THEN "exit" ELSE "RegisterForHWSimNotifications"
    /\ open' = open
    /\ MainKeep
    /\ UNCHANGED handler_vars

\* RegisterForHWSimNotifications: the result of nl_send_auto is dropped, and
\* nl_wait_for_ack gets no ack for a request that was not sent.
MainRegister ==
    /\ pc = "RegisterForHWSimNotifications"
    /\ \E sendRes \in {0, -1}, res \in {0, -1} :
        /\ sendRes < 0 => res < 0
        /\ pc' = IF res < 0 THEN "exit" ELSE "socket"
    /\ open' = open
    /\ MainKeep
    /\ UNCHANGED handler_vars

\* fd = socket(AF_UNIX, SOCK_SEQPACKET, 0); if (fd <= 0) exit(1);
MainSocket ==
    /\ pc = "socket"
    /\ \E fd \in {-1, 0, server_fd} :
        /\ pc' = IF fd <= 0 THEN "exit" ELSE "bind"
        /\ open' = IF fd < 0 THEN open ELSE open \cup {fd}
    /\ MainKeep
    /\ UNCHANGED handler_vars

\* res = bind(fd, ...); if (res < 0) exit(1);
MainBind ==
    /\ pc = "bind"
    /\ \E res \in {0, -1} :
        pc' = IF res < 0 THEN "exit" ELSE "listen"
    /\ open' = open
    /\ MainKeep
    /\ UNCHANGED handler_vars

\* listen(fd, 4); return fd; whatever listen returned: pc tells whether the
\* socket listens.
MainListen ==
    /\ pc = "listen"
    /\ \E res \in {0, -1} :
        pc' = IF res < 0 THEN "not_listening" ELSE "listening"
    /\ open' = open
    /\ MainKeep
    /\ UNCHANGED handler_vars

\* ServerLoop(server_fd, sock.get(), mac80211_family);
MainServerLoop ==
    /\ pc \in {"listening", "not_listening"}
    /\ pc' = "select"
    /\ reads' = FdSet(clients)
    /\ UNCHANGED <<clients, targets, open, cur, key, mac, it, pending_removals,
                   sent, entry, handled, closed, rep, accepted>>
    /\ UNCHANGED handler_vars

\* The positions of main() before ServerLoop.
StartupPcs ==
    {"nl_connect", "genl_ctrl_resolve", "RegisterForHWSimNotifications",
     "socket", "bind", "listen", "listening", "not_listening"}

NextMain ==
    \/ MainConnect
    \/ MainResolve
    \/ MainRegister
    \/ MainSocket
    \/ MainBind
    \/ MainListen
    \/ MainServerLoop
    \/ Next

SpecMain == InitMain /\ [][NextMain]_vars

(***************************************************************************)
(* RemoveClient on its own: called, any number of times, with any client   *)
(* descriptor number on any index the daemon can have built.               *)
(***************************************************************************)
Keys == {GetMacHash(m) : m \in Macs}

\* The multimaps of at most MaxTargets elements over the clients cs.
TargetSeqs(cs) ==
    {t \in UNION {[1..n -> [first : Keys, second : cs]] : n \in 0..MaxTargets} :
        \A i, j \in 1..Len(t) : i < j => ~KeyLess(t[j].first, t[i].first)}

InitRemove ==
    /\ clients \in SUBSET ClientFds
    /\ targets \in TargetSeqs(clients)
    /\ open = clients \cup {netlink_fd, server_fd}
    /\ pc = "RemoveClient"
    /\ reads = {}
    /\ cur = 0
    /\ key = NoKey
    /\ mac = NoMac
    /\ it = 0
    /\ pending_removals = {}
    /\ sent = <<>>
    /\ entry = None
    /\ handled = None
    /\ closed = None
    /\ rep = None
    /\ accepted = None
    /\ NoHandler

\* The ids of the calls: the client descriptor numbers, and one the process
\* never held.
RemoveIds == ClientFds \cup {MaxFd + 1}

CallRemoveClient ==
    /\ pc = "RemoveClient"
    /\ \E client \in RemoveIds :
        LET r == RemoveClient(client, clients, targets, open)
        IN  /\ clients' = r.clients
            /\ targets' = r.targets
            /\ open' = r.open
            /\ closed' = r.closed
    /\ UNCHANGED <<pc, reads, cur, key, mac, it, pending_removals, sent, entry,
                   handled, rep, accepted>>
    /\ UNCHANGED handler_vars

SpecRemove == InitRemove /\ [][CallRemoveClient]_vars

(***************************************************************************)
(* GetMacHash on its own: called once on any address over HashBytes.       *)
(***************************************************************************)
\* The values of a byte of an address: none, the low bit, the high bit.
HashBytes == {0, 1, 128}
HashInputs == [1..6 -> HashBytes]

InitHash ==
    /\ clients = {}
    /\ targets = <<>>
    /\ open = {}
    /\ pc = "GetMacHash"
    /\ reads = {}
    /\ cur = 0
    /\ key = NoKey
    /\ mac \in HashInputs
    /\ it = 0
    /\ pending_removals = {}
    /\ sent = <<>>
    /\ entry = None
    /\ handled = None
    /\ closed = None
    /\ rep = None
    /\ accepted = None
    /\ NoHandler

\* key = GetMacHash(mac)
CallGetMacHash ==
    /\ pc = "GetMacHash"
    /\ key' = GetMacHash(mac)
    /\ pc' = "hashed"
    /\ UNCHANGED <<clients, targets, open, reads, cur, mac, it, pending_removals,
                   sent, entry, handled, closed, rep, accepted>>
    /\ UNCHANGED handler_vars

SpecHash == InitHash /\ [][CallGetMacHash]_vars

(***************************************************************************)
(* ClientHandler::HandleMessage and the callbacks of the calls it makes.   *)
(* A Json::Value is [t, s] or [t, s, m]: t its Json::ValueType, s what     *)
(* asString() returns, m the members of an object; a member an object does *)
(* not have is Absent.                                                     *)
(***************************************************************************)
Absent == [t |-> "absent", s |-> ""]
JsonNull == [t |-> "nullValue", s |-> ""]
JsonInt == [t |-> "intValue", s |-> "5"]
JsonArray == [t |-> "arrayValue", s |-> ""]
JsonString(str) == [t |-> "stringValue", s |-> str]
JsonObject(members) == [t |-> "objectValue", s |-> "", m |-> members]

\* obj.isMember(name)
IsMember(obj, name) == obj.t = "objectValue" /\ obj.m[name] # Absent
\* obj[name]: null for a member that is not there, and for every member of null.
Member(obj, name) == IF IsMember(obj, name) THEN obj.m[name] ELSE JsonNull
\* value.isConvertibleTo(type), for the three types the handler asks for.
IsConvertibleTo(value, type) ==
    CASE type = "stringValue" -> value.t \in {"nullValue", "intValue", "stringValue"}
      [] type = "intValue" -> value.t \in {"nullValue", "intValue"}
      [] type = "objectValue" -> value.t \in {"nullValue", "objectValue"}

\* ValidationResult
Ok == [ok |-> TRUE]
Error(error_msg) == [ok |-> FALSE, error |-> error_msg]

\* validateJsonObject that looks at the first field of the map only.
validateJsonObjectFirst(obj, type, fields) ==
    LET field_spec == fields[1]
    IN  IF IsMember(obj, field_spec[1])
           /\ IsConvertibleTo(Member(obj, field_spec[1]), field_spec[2])
        THEN Ok
        ELSE Error([field |-> field_spec[1], type |-> field_spec[2], in |-> type])

\* validateJsonObject(obj, type, fields): fields in the order of the std::map,
\* the error names the first field that is missing or not convertible.
validateJsonObject(obj, type, fields) ==
    LET bad == {i \in 1..Len(fields) :
                  ~(IsMember(obj, fields[i][1])
                    /\ IsConvertibleTo(Member(obj, fields[i][1]), fields[i][2]))}
    IN  IF bad = {}
        THEN Ok
        ELSE LET field_spec == fields[CHOOSE i \in bad : \A j \in bad : i <= j]
             IN  Error([field |-> field_spec[1], type |-> field_spec[2], in |-> type])

\* The reply LogAndReplyError gives to send_to_client_.
LogAndReplyError(error_msg) == [type |-> "error", error |-> error_msg]

\* What one call of HandleMessage does.
Done(r, c, o) == [replies |-> r, calls |-> c, observers |-> o]

\* HandleMessage(message); parsed is the outcome of
\* webrtc::CreateSessionDescription, webrtc::CreateIceCandidate or
\* DecodeBase64 on the text of the message.
HandleMessage(msg, parsed) ==
    LET result == validateJsonObject(msg, "", << <<"type", "stringValue">> >>)
        type == Member(msg, "type").s
    IN
    IF ~result.ok THEN Done(<<LogAndReplyError(result.error)>>, <<>>, {})
    ELSE IF type = "request-offer"
    THEN Done(<<>>, <<"CreateOffer">>, {"MyCreateSessionDescriptionObserver"})
    ELSE IF type = "answer"
    THEN LET r == validateJsonObject(msg, type, << <<"sdp", "stringValue">> >>)
         IN  IF ~r.ok THEN Done(<<LogAndReplyError(r.error)>>, <<>>, {})
             ELSE IF ~parsed
             THEN Done(<<LogAndReplyError("Failed to parse answer.")>>, <<>>, {})
             ELSE Done(<<>>, <<"SetRemoteDescription">>, {"MyOnSetRemoteDescription"})
    ELSE IF type = "ice-candidate"
    THEN LET r == validateJsonObject(msg, type, << <<"candidate", "objectValue">> >>)
             candidate_json == Member(msg, "candidate")
             c == validateJsonObject(candidate_json, "ice-candidate/candidate",
                                     << <<"candidate", "stringValue">>,
                                        <<"sdpMLineIndex", "intValue">>,
                                        <<"sdpMid", "stringValue">> >>)
         IN  IF ~r.ok THEN Done(<<LogAndReplyError(r.error)>>, <<>>, {})
             ELSE IF ~c.ok THEN Done(<<LogAndReplyError(c.error)>>, <<>>, {})
             ELSE IF ~parsed
             THEN Done(<<LogAndReplyError("Failed to parse ICE candidate")>>, <<>>, {})
             ELSE Done(<<>>, <<"AddIceCandidate">>, {"AddIceCandidate"})
    ELSE IF type = "adb-message"
    THEN LET r == validateJsonObject(msg, type, << <<"payload", "stringValue">> >>)
         IN  IF ~r.ok THEN Done(<<LogAndReplyError(r.error)>>, <<>>, {})
             ELSE IF ~parsed THEN Done(<<>>, <<>>, {})
             ELSE Done(<<>>, <<"OnAdbMessage">>, {})
    ELSE Done(<<LogAndReplyError([text |-> "Unknown client message type: ",
                                      type |-> type])>>, <<>>, {})

\* The values of a member: not there, null, a number, a string, an array.
FieldValues == {Absent, JsonNull, JsonInt, JsonString("x"), JsonArray}
\* The values of "type": those, the four types of the handler, another string.
TypeValues ==
    {Absent, JsonNull, JsonInt, JsonArray} \cup
    {JsonString(str) : str \in {"request-offer", "answer", "ice-candidate",
                                "adb-message", "bogus"}}
\* The values of "candidate": those of a member, and the objects over
\* sdpMid, candidate and sdpMLineIndex.
CandidateValues ==
    FieldValues \cup
    {JsonObject(o) : o \in [sdpMid : FieldValues, candidate : FieldValues,
                            sdpMLineIndex : FieldValues]}
\* The messages: null, and the objects over type, sdp, candidate and payload.
JsonMessages ==
    {JsonNull} \cup
    {JsonObject(o) : o \in [type : TypeValues, sdp : FieldValues,
                            candidate : CandidateValues, payload : FieldValues]}

InitMessage ==
    /\ clients = {}
    /\ targets = <<>>
    /\ open = {}
    /\ pc = "HandleMessage"
    /\ reads = {}
    /\ cur = 0
    /\ key = NoKey
    /\ mac = NoMac
    /\ it = 0
    /\ pending_removals = {}
    /\ sent = <<>>
    /\ entry = None
    /\ handled = None
    /\ closed = None
    /\ rep = None
    /\ accepted = None
    /\ message \in JsonMessages
    /\ replies = <<>>
    /\ calls = <<>>
    /\ observers = {}
    /\ connection_closed = 0

\* The wifi router's variables, which the ClientHandler does not have.
RouterKeep ==
    UNCHANGED <<clients, targets, open, reads, cur, key, mac, it,
                pending_removals, sent, entry, handled, closed, rep, accepted>>

\* HandleMessage(message)
CallHandleMessage ==
    /\ pc = "HandleMessage"
    /\ \E parsed \in BOOLEAN :
        LET h == HandleMessage(message, parsed)
        IN  /\ replies' = replies \o h.replies
            /\ calls' = calls \o h.calls
            /\ observers' = observers \cup h.observers
    /\ pc' = "handled"
    /\ UNCHANGED <<message, connection_closed>>
    /\ RouterKeep

\* MyCreateSessionDescriptionObserver::OnSuccess: OnCreateSDPSuccess(desc)
OnCreateSDPSuccess ==
    /\ "MyCreateSessionDescriptionObserver" \in observers
    /\ calls' = Append(calls, "SetLocalDescription")
    /\ observers' = (observers \ {"MyCreateSessionDescriptionObserver"})
                        \cup {"MySetSessionDescriptionObserver"}
    /\ replies' = Append(replies, [type |-> "offer", sdp |-> "offer_str"])
    /\ UNCHANGED <<pc, message, connection_closed>>
    /\ RouterKeep

\* MyCreateSessionDescriptionObserver::OnFailure: OnCreateSDPFailure(error)
OnCreateSDPFailure ==
    /\ "MyCreateSessionDescriptionObserver" \in observers
    /\ observers' = observers \ {"MyCreateSessionDescriptionObserver"}
    /\ replies' = Append(replies, LogAndReplyError("error.message()"))
    /\ connection_closed' = connection_closed + 1
    /\ UNCHANGED <<pc, message, calls>>
    /\ RouterKeep

\* MySetSessionDescriptionObserver::OnSuccess: nothing else to do.
OnSetSDPSuccess ==
    /\ "MySetSessionDescriptionObserver" \in observers
    /\ observers' = observers \ {"MySetSessionDescriptionObserver"}
    /\ UNCHANGED <<pc, message, replies, calls, connection_closed>>
    /\ RouterKeep

\* MySetSessionDescriptionObserver::OnFailure: OnSetSDPFailure(error)
OnSetSDPFailure ==
    /\ "MySetSessionDescriptionObserver" \in observers
    /\ observers' = observers \ {"MySetSessionDescriptionObserver"}
    /\ replies' = Append(replies, LogAndReplyError("error.message()"))
    /\ connection_closed' = connection_closed + 1
    /\ UNCHANGED <<pc, message, calls>>
    /\ RouterKeep

\* MyOnSetRemoteDescription::OnSetRemoteDescriptionComplete(error): the
\* lambda of the answer.
OnSetRemoteDescriptionComplete ==
    /\ "MyOnSetRemoteDescription" \in observers
    /\ observers' = observers \ {"MyOnSetRemoteDescription"}
    /\ \E ok \in BOOLEAN :
        IF ok
        THEN UNCHANGED <<replies, connection_closed>>
        ELSE /\ replies' = Append(replies, LogAndReplyError("error.message()"))
             /\ connection_closed' = connection_closed + 1
    /\ UNCHANGED <<pc, message, calls>>
    /\ RouterKeep

\* The lambda given to AddIceCandidate.
OnAddIceCandidateComplete ==
    /\ "AddIceCandidate" \in observers
    /\ observers' = observers \ {"AddIceCandidate"}
    /\ \E ok \in BOOLEAN :
        IF ok
        THEN UNCHANGED replies
        ELSE replies' = Append(replies, LogAndReplyError("error.message()"))
    /\ UNCHANGED <<pc, message, calls, connection_closed>>
    /\ RouterKeep

NextMessage ==
    \/ CallHandleMessage
    \/ OnCreateSDPSuccess
    \/ OnCreateSDPFailure
    \/ OnSetSDPSuccess
    \/ OnSetSDPFailure
    \/ OnSetRemoteDescriptionComplete
    \/ OnAddIceCandidateComplete

SpecMessage == InitMessage /\ [][NextMessage]_vars

(***************************************************************************)
(* The claims.                                                             *)
(***************************************************************************)
\* t without the elements whose client is in gone.
Without(t, gone) ==
    LET Stays(e) == e.second \notin gone
    IN  SelectSeq(t, Stays)

\* The clients a send() of the RouteWIFIPacket call was made to, and those a
\* send() to which failed or was short.
SentTo == {sent[i].client : i \in 1..Len(sent)}
Failed == {sent[i].client : i \in {j \in 1..Len(sent) : ~sent[j].ok}}
Sends(client) == Cardinality({i \in 1..Len(sent) : sent[i].client = client})

\* C1: in every state between the operations of ServerLoop, every client the
\* subscription index names is in the client set.
C1_IndexNamesLiveClients == Referenced(targets) \subseteq clients

\* A RemoveClient of RouteWIFIPacket has just removed a client the index
\* named, and the index still names another.
C1_Witness ==
    /\ pc = "reap"
    /\ closed # None
    /\ closed.fd \in Referenced(entry.targets)
    /\ closed.fd \notin Referenced(targets)
    /\ targets # <<>>

\* C2: the subscription index holds no (mac, client) pair twice.
C2_NoDuplicatePair ==
    \A i, j \in 1..Len(targets) : targets[i] = targets[j] => i = j

\* C3: when the send loop of RouteWIFIPacket is over, every client that was
\* subscribed to the notification's address was sent exactly one frame.
C3_OneFramePerSubscriber ==
    pc = "reap" => \A c \in Subscribers(entry.targets, GetMacHash(mac)) : Sends(c) = 1

\* C4: when the send loop of RouteWIFIPacket is over, a send was made to
\* every client subscribed to the notification's address, one for each
\* element of the index, whatever the outcome of the sends before it.
C4_EverySubscriberTried ==
    pc = "reap" =>
        /\ SentTo = Subscribers(entry.targets, GetMacHash(mac))
        /\ Len(sent) = Cardinality({i \in 1..Len(entry.targets) :
                                      entry.targets[i].first = GetMacHash(mac)})

\* A send failed and a later send went to another client.
C4_Witness ==
    /\ pc = "reap"
    /\ \E i, j \in 1..Len(sent) : i < j /\ ~sent[i].ok /\ sent[j].client # sent[i].client

\* C5: a notification whose transmitter address no client has registered is
\* sent to no client (no client ever registers an address outside RegMacs).
C5_OnlyRegisteredAddress ==
    (pc \in {"send", "reap"} /\ mac \notin RegMacs) => sent = <<>>

\* RouteWIFIPacket has returned and no other step was taken since.
Returned == pc = "clients" /\ entry # None

\* C6: after RouteWIFIPacket returns, the clients a send to which failed or
\* was short are out of the client set and of the index, every other client
\* and every other element of the index is as it was on entry, and the
\* subscribers of the notification's key are those of before less the failed.
C6_FailedReaped ==
    Returned =>
        /\ clients = entry.clients \ Failed
        /\ targets = Without(entry.targets, Failed)
        /\ Failed \cap Referenced(targets) = {}
        /\ Failed \cap open = {}
        /\ key # NoKey => Subscribers(targets, key) = Subscribers(entry.targets, key) \ Failed

\* RouteWIFIPacket returned after a failed send, with a subscriber left.
C6_Witness ==
    /\ Returned
    /\ Failed # {}
    /\ key # NoKey
    /\ Subscribers(targets, key) # {}

C8_ClosedOnceOnRemoval ==
    /\ closed # None => closed.wasOpen /\ closed.wasClient
    /\ open = clients \cup {netlink_fd, server_fd}

\* The loop over clients runs while a descriptor select() reported ready has
\* been removed and closed by RouteWIFIPacket.
C8_Witness ==
    /\ pc = "clients"
    /\ \E c \in reads \cap ClientFds : c \notin clients /\ c \notin open

\* The index holds (GetMacHash(m), client).
InIndex(m, client) == \E i \in 1..Len(targets) :
    targets[i] = [first |-> GetMacHash(m), second |-> client]

\* The last request handled was a whole REGISTER naming a MAC address, and
\* its handling is over, the RemoveClient that follows a false return included.
RegisterDone == handled # None /\ Registers(handled.msg) /\ pc = "clients"

\* C9 as claimed: a REGISTER naming M from C puts (M, C) in the index, is
\* answered with result 0 and leaves C in the client set.
C9_RegisterKeepsClient ==
    RegisterDone =>
        /\ handled.acked /\ handled.result = 0
        /\ InIndex(handled.msg.mac, handled.client)
        /\ handled.client \in clients

\* C9 as amended: the ack has result 0; with the ack sent in full, (M, C) is
\* in the index and C is in the client set; with the ack failed or short, C
\* is out of the client set and of the index.
C9_RegisterAcked ==
    /\ RegisterDone =>
        /\ handled.acked /\ handled.result = 0
        /\ handled.ackOk =>
              InIndex(handled.msg.mac, handled.client) /\ handled.client \in clients
        /\ ~handled.ackOk =>
              handled.client \notin clients \cup Referenced(targets)
    /\ (handled # None /\ Registers(handled.msg) /\ pc = "remove") =>
        ~handled.ackOk /\ InIndex(handled.msg.mac, handled.client)

\* A REGISTER naming a MAC address was acked in full.
C9_Witness == RegisterDone /\ handled.ackOk /\ handled.client \in clients

\* A whole request with the two headers that is an unsupported command or a
\* REGISTER whose attributes hold no MAC address.
Unsupported(m) ==
    /\ m.size = m.nlmsg_len /\ m.size >= NLMSG_HDRLEN + GENL_HDRLEN
    /\ m.cmd # "WIFIROUTER_CMD_REGISTER" \/ (m.parse /\ m.mac = NoMac)

\* C10: HandleClientMessage on such a request sends an ack with a negative
\* result, leaves the index as it is, and, when the ack is sent in full, is
\* not followed by RemoveClient.
C10_UnsupportedAcked ==
    [][(pc = "clients" /\ handled' # None /\ Unsupported(handled'.msg)) =>
        /\ handled'.acked /\ handled'.result < 0
        /\ targets' = targets
        /\ handled'.client \in clients'
        /\ handled'.ackOk => pc' = "clients"]_vars

\* A client with a subscription sent such a request, was acked in full and
\* is still a client with its subscription.
C10_Witness ==
    /\ handled # None
    /\ Unsupported(handled.msg)
    /\ handled.ackOk
    /\ handled.client \in clients \cap Referenced(targets)

\* A whole request with at least its nlmsghdr: one that is answered.
Answered(m) == m.size = m.nlmsg_len /\ m.size >= NLMSG_HDRLEN

\* C11: the ack of an answered request (a REGISTER that succeeds, one that
\* fails, an unsupported command) has the nlmsg_pid and the nlmsg_seq of
\* that request.
C11_AckEchoesRequest ==
    (handled # None /\ Answered(handled.msg)) =>
        /\ handled.acked
        /\ handled.pid = handled.msg.nlmsg_pid
        /\ handled.seq = handled.msg.nlmsg_seq

\* A failed REGISTER of the second port was acked after the index came to
\* hold a subscription.
C11_Witness ==
    /\ handled # None
    /\ Answered(handled.msg)
    /\ handled.msg.cmd = "WIFIROUTER_CMD_REGISTER"
    /\ handled.result < 0
    /\ handled.pid = 9 /\ handled.seq = 43
    /\ targets # <<>>

\* A read that yields no bytes, an error, fewer bytes than a nlmsghdr, or a
\* number of bytes other than the nlmsg_len of the header.
BrokenRead(m) ==
    m.size = 0 \/ m.size < 0 \/ m.size < NLMSG_HDRLEN \/ m.nlmsg_len # m.size

\* C12: on such a read HandleClientMessage sends no ack and adds nothing to
\* the index, and the RemoveClient that follows takes the client out of the
\* client set and of the index and closes its descriptor.
C12_BrokenReadRemoves ==
    [][/\ (pc = "clients" /\ handled' # None /\ BrokenRead(handled'.msg)) =>
            /\ ~handled'.acked
            /\ targets' = targets
            /\ pc' = "remove"
       /\ (pc = "remove" /\ BrokenRead(handled.msg)) =>
            /\ clients' = clients \ {handled.client}
            /\ targets' = Without(targets, {handled.client})
            /\ handled.client \notin clients' \cup Referenced(targets') \cup open'
            /\ closed' = [fd |-> handled.client, wasOpen |-> TRUE, wasClient |-> TRUE]]_vars

\* A client was removed on a read whose size was not the nlmsg_len of the
\* header, while the index held the subscription of another.
C12_Witness ==
    /\ pc = "clients"
    /\ handled # None
    /\ handled.msg.size > 0 /\ handled.msg.size # handled.msg.nlmsg_len
    /\ closed # None /\ closed.fd = handled.client
    /\ handled.client \notin clients
    /\ targets # <<>>

\* A whole request whose attributes do not parse.
Unparsable(m) ==
    m.size = m.nlmsg_len /\ m.size >= NLMSG_HDRLEN + GENL_HDRLEN /\ ~m.parse

C14_FailedAckPurges ==
    /\ (pc = "clients" /\ handled # None /\ handled.acked /\ ~handled.ackOk) =>
        /\ handled.client \notin clients
        /\ handled.client \notin Referenced(targets)
        /\ closed # None /\ closed.fd = handled.client
    /\ (pc = "remove" /\ handled.acked) =>
        /\ ~handled.ackOk
        /\ Registers(handled.msg) => InIndex(handled.msg.mac, handled.client)

\* The ack of a REGISTER naming a MAC address failed, the client is gone and
\* the index holds the subscription of another.
C14_Witness ==
    /\ pc = "clients"
    /\ handled # None
    /\ Registers(handled.msg)
    /\ handled.acked /\ ~handled.ackOk
    /\ handled.client \notin clients
    /\ targets # <<>>

\* C15: ServerLoop is at no time inside a send() of RouteWIFIPacket that
\* waits for the subscriber.
C15_NeverWaitsOnClient == pc # "blocked"

\* A read of the netlink socket that fails, a message of another family, one
\* whose attributes do not parse, one without a transmitter address.
NotRouted(m) ==
    m.len < 0 \/ m.nlmsg_type # family \/ ~m.parse \/ m.addr = NoMac

\* C16: RouteWIFIPacket on such a read returns to the loop over the clients
\* with nothing sent, nothing closed, and the client set and the index as
\* they were.
C16_DiscardedNoEffect ==
    (entry # None /\ NotRouted(entry.msg)) =>
        /\ pc = "clients"
        /\ sent = <<>>
        /\ closed = None
        /\ pending_removals = {}
        /\ clients = entry.clients
        /\ targets = entry.targets
        /\ open = clients \cup {netlink_fd, server_fd}

\* A message of another family was discarded whose transmitter address has a
\* subscriber.
C16_Witness ==
    /\ entry # None
    /\ entry.msg.nlmsg_type # family
    /\ entry.msg.addr # NoMac
    /\ Subscribers(targets, GetMacHash(entry.msg.addr)) # {}

\* C17: ServerLoop is entered only from a main() whose every step
\* succeeded, the listen() on the control socket included.
C17_LoopOnlyAfterStartup ==
    [][(pc \in StartupPcs /\ pc' = "select") => pc = "listening"]_vars

\* C18: no step of ServerLoop takes an element out of the index whose client
\* is in the client set after the step.
C18_SubscriptionStays ==
    [][\A i \in 1..Len(targets) :
          targets[i].second \in clients' =>
              \E j \in 1..Len(targets') : targets'[j] = targets[i]]_vars

\* A client that had a subscription registered another address, was acked in
\* full, and has both.
C18_Witness ==
    /\ pc = "clients"
    /\ handled # None
    /\ Registers(handled.msg)
    /\ handled.ackOk
    /\ InIndex(handled.msg.mac, handled.client)
    /\ \E i \in 1..Len(targets) :
          /\ targets[i].second = handled.client
          /\ targets[i].first # GetMacHash(handled.msg.mac)

\* C19: right after AcceptNewClient has added a client, no element of the
\* index names its descriptor number, whoever held that number before; and
\* a frame is only ever sent to a client the index named when
\* RouteWIFIPacket was entered.
C19_NoResumption ==
    /\ (accepted # None /\ accepted.fd >= 0) =>
        /\ accepted.fd \in clients
        /\ accepted.fd \notin Referenced(targets)
    /\ pc \in {"send", "blocked", "reap"} => SentTo \subseteq Referenced(entry.targets)

\* A client was accepted under a descriptor number below that of a client
\* with a subscription: a number a removed client has held.
C19_Witness ==
    /\ accepted # None
    /\ accepted.fd \in clients
    /\ \E c \in Referenced(targets) : c > accepted.fd

\* C20: every frame of a send() of RouteWIFIPacket is a NOTIFY whose MAC
\* attribute is the transmitter address of the notification and whose
\* packet attribute is the datagram nl_recv returned, all its bytes and no
\* more, and it is the frame of every other send() of that call.
C20_FrameIsDatagram ==
    \A i \in 1..Len(sent) :
        /\ sent[i].frame.cmd = "WIFIROUTER_CMD_NOTIFY"
        /\ sent[i].frame.mac = entry.msg.addr
        /\ sent[i].frame.packet = entry.msg.buf
        /\ Len(sent[i].frame.packet) = entry.msg.len
        /\ \A j \in 1..Len(sent) : sent[j].frame = sent[i].frame

\* The frame of one notification was sent to two clients.
C20_Witness ==
    /\ pc = "reap"
    /\ \E i, j \in 1..Len(sent) : sent[i].client # sent[j].client
    /\ entry.msg.len = Len(entry.msg.buf)
    /\ entry.msg.len > Len(entry.msg.addr)

\* A message that ends before the end of its genlmsghdr.
Truncated(m) == m.size < NLMSG_HDRLEN + GENL_HDRLEN

\* C21: HandleClientMessage answers no such message: it returns false
\* without an ack, and adds nothing to the index.
C21_TruncatedRejected ==
    [][(pc = "clients" /\ handled' # None /\ Truncated(handled'.msg)) =>
        /\ ~handled'.acked
        /\ ~handled'.ret
        /\ targets' = targets]_vars

\* The clients RouteWIFIPacket has called RemoveClient for.
Reaped == Failed \ pending_removals

\* C22: while the send loop of RouteWIFIPacket runs, the client set and the
\* index are those of its entry and nothing is closed; when the removals
\* start a send was made for every element of the notification's key; each
\* RemoveClient is for a client a send to which failed that is still in the
\* client set, so no client is removed twice.
C22_RemovalsAfterSends ==
    /\ pc \in {"send", "blocked"} =>
        /\ clients = entry.clients
        /\ targets = entry.targets
        /\ closed = None
    /\ pc = "reap" =>
        /\ Len(sent) = Cardinality({i \in 1..Len(entry.targets) :
                                      entry.targets[i].first = key})
        /\ pending_removals \subseteq Failed
        /\ clients = entry.clients \ Reaped
        /\ targets = Without(entry.targets, Reaped)
        /\ closed # None =>
              closed.wasClient /\ closed.wasOpen /\ closed.fd \in Reaped

\* A client two sends to which failed has been removed, once.
C22_Witness ==
    /\ pc = "reap"
    /\ closed # None
    /\ Cardinality({i \in 1..Len(sent) : sent[i].client = closed.fd /\ ~sent[i].ok}) = 2
    /\ closed.wasClient

\* The order of the positions of one iteration of ServerLoop.
LoopOrder ==
    {<<"select", "accept">>, <<"accept", "route">>,
     <<"route", "send">>, <<"route", "clients">>,
     <<"send", "blocked">>, <<"blocked", "send">>, <<"send", "reap">>,
     <<"reap", "clients">>,
     <<"clients", "remove">>, <<"remove", "clients">>, <<"clients", "select">>}

\* C23: an iteration goes from select() to the accept, to RouteWIFIPacket,
\* to the loop over the clients and back; a request is handled only in the
\* loop over the clients, and a frame is sent only by RouteWIFIPacket, before
\* any client of the iteration was visited, to a client that was subscribed
\* to the key when RouteWIFIPacket was entered.
C23_IterationOrder ==
    [][/\ pc' # pc => <<pc, pc'>> \in LoopOrder
       /\ (handled' # None /\ handled' # handled) => pc = "clients"
       /\ Len(sent') > Len(sent) =>
            /\ pc = "send" /\ cur = 0 /\ handled = None
            /\ sent'[Len(sent')].client \in Subscribers(entry.targets, key)]_vars

\* A REGISTER naming a MAC address was handled in an iteration in which
\* RouteWIFIPacket ran before.
C23_Witness ==
    /\ pc = "clients"
    /\ netlink_fd \in reads
    /\ handled # None
    /\ Registers(handled.msg)
    /\ handled.ackOk
    /\ InIndex(handled.msg.mac, handled.client)
    /\ handled.msg.mac \in TxMacs

\* C24: the netlink socket and the listener are open in every state, and the
\* descriptors handed to select() are these two and the clients of the
\* client set, all of them open.
C24_ListenerAndKernelKept ==
    /\ {netlink_fd, server_fd} \subseteq open
    /\ pc = "select" =>
        /\ reads = {netlink_fd, server_fd} \cup clients
        /\ reads \subseteq open

\* select() is called after a client with a lower descriptor number than
\* another was removed, with subscriptions left in the index.
C24_Witness ==
    /\ pc = "select"
    /\ \E c \in clients : \E d \in ClientFds \ open : d < c
    /\ targets # <<>>

\* C25: an accept() that succeeds adds the descriptor it returned, which was
\* neither open nor a client, to the client set and changes no other client
\* and no element of the index; one that fails changes neither the client
\* set nor the index nor the open descriptors; the listener stays open.
C25_AcceptAddsOneOrNone ==
    [][(pc = "accept" /\ accepted' # None) =>
        /\ targets' = targets
        /\ server_fd \in open'
        /\ closed' = None
        /\ IF accepted'.fd >= 0
           THEN /\ accepted'.fd \notin clients \cup open
                /\ clients' = clients \cup {accepted'.fd}
                /\ open' = open \cup {accepted'.fd}
           ELSE UNCHANGED <<clients, open>>]_vars

\* An accept() failed while there were clients and subscriptions.
C25_Witness ==
    /\ accepted # None
    /\ accepted.fd < 0
    /\ clients # {}
    /\ targets # <<>>
    /\ server_fd \in open

\* C26: the key GetMacHash returned for an address is the key of no other
\* address, and is the key of that address.
C26_HashInjective ==
    pc = "hashed" => \A b \in HashInputs : (GetMacHash(b) = key) <=> (b = mac)

\* select() returned with a message to read on connected client c.
Pending(c) == pc = "accept" /\ c \in reads /\ c \in clients
\* HandleClientMessage ran on c, or c is no longer a client.
Served(c) == (handled # None /\ handled.client = c) \/ c \notin clients

\* C27: a message select() reported on a connected client is eventually
\* handled by HandleClientMessage, or the client is removed, whatever the
\* kernel socket delivers in the iterations.
C27_ClientsNotStarved == \A c \in ClientFds : Pending(c) ~> Served(c)
\* A client is handled in an iteration whose select() also reported the
\* kernel socket, and is acked.
C27_Witness ==
    /\ pc = "clients"
    /\ netlink_fd \in reads
    /\ handled # None
    /\ handled.client \in reads
    /\ handled.acked
    /\ handled.ret

\* The clients select() reported ready that were removed since, in the
\* iteration that select() started.
GoneReady == (reads \cap ClientFds) \ clients

\* A step of the loop over the clients calls HandleClientMessage for a
\* descriptor that is in the client set, open and reported ready, and does
\* nothing with a client of GoneReady.
LoopStepOnLive ==
    pc \in {"clients", "remove"} =>
        /\ (pc = "clients" /\ handled' # None) =>
              handled'.client \in clients \cap open \cap reads
        /\ \A c \in GoneReady :
              /\ handled' # None => handled'.client # c
              /\ c \notin Referenced(targets')
              /\ c \notin clients'
              /\ closed' # None => closed'.fd # c

\* C28: every step of the loop over the clients that calls
\* HandleClientMessage calls it for a descriptor that is in the client set,
\* open and reported ready; and for a client that was reported ready and has
\* been removed in the iteration, no step of the loop reads a message, adds
\* a subscription or calls RemoveClient.
C28_OnlyLiveClientsHandled == [][LoopStepOnLive]_vars

\* RouteWIFIPacket has returned after it removed a client select() reported
\* ready, and a client after it in the set is ready too: the loop over the
\* clients starts.
C28_Witness ==
    /\ Returned
    /\ cur = 0
    /\ \E c \in Failed \cap GoneReady : \E d \in clients \cap reads : d > c

\* obj is an object with a member name whose type is one of types.
Has(obj, name, types) == obj.t = "objectValue" /\ obj.m[name].t \in types
\* The types of a value that converts to a string, and to an int.
StringLike == {"nullValue", "intValue", "stringValue"}
IntLike == {"nullValue", "intValue"}
\* The message has no string-convertible type, or a type the handler does
\* not know, or not the fields of its type.
Invalid(msg) ==
    \/ ~Has(msg, "type", StringLike)
    \/ msg.m.type.s \notin {"request-offer", "answer", "ice-candidate", "adb-message"}
    \/ msg.m.type.s = "answer" /\ ~Has(msg, "sdp", StringLike)
    \/ /\ msg.m.type.s = "ice-candidate"
       /\ ~ /\ Has(msg, "candidate", {"objectValue"})
            /\ Has(msg.m.candidate, "sdpMid", StringLike)
            /\ Has(msg.m.candidate, "candidate", StringLike)
            /\ Has(msg.m.candidate, "sdpMLineIndex", IntLike)
    \/ msg.m.type.s = "adb-message" /\ ~Has(msg, "payload", StringLike)

====
